---------------------------- MODULE Spec2Model ----------------------------
(***************************************************************************)
(* Terra::Base16 / Base32 / Base45 / Base58 / Base64: the encoders and     *)
(* decoders of terrapane/bases as operators over sequences, and a small    *)
(* state machine that calls them.                                          *)
(*                                                                         *)
(* An octet is a number in 0..255.  A character is its character code, a   *)
(* number in 0..255 ('1' is 49, 'A' is 65, '=' is 61, ' ' is 32); a string *)
(* is a sequence of characters.  C++ index i is TLA+ index i + 1.          *)
(***************************************************************************)
EXTENDS Integers, Sequences, FiniteSets

(***************************************************************************)
(* Registers.  The code's accumulators are std::size_t and                 *)
(* std::uint_fast32_t, at least 32 bits wide, and several of them are      *)
(* never cleared (the high bits are shifted out).  The model keeps the low *)
(* RegBits bits of a register; no operation reads a bit above bit 23.      *)
(***************************************************************************)
RegBits == 24

RECURSIVE Pow2(_)
Pow2(k) == IF k = 0 THEN 1 ELSE 2 * Pow2(k - 1)

\* x << k in a RegBits-bit register
Shl(x, k) == (x % Pow2(RegBits - k)) * Pow2(k)

\* x >> k
Shr(x, k) == x \div Pow2(k)

\* x & (2^k - 1)
LowBits(x, k) == x % Pow2(k)

\* std::reverse over a whole sequence
Reverse(s) == [i \in 1..Len(s) |-> s[Len(s) + 1 - i]]

\* a sequence of n copies of v
Fill(n, v) == [i \in 1..n |-> v]

\* every sequence over S of length at most n
SeqsUpTo(S, n) == UNION {[1..k -> S] : k \in 0..n}

\* Base16Table: the forward alphabet, as character codes (index = symbol value + 1).
Base16Table ==
    <<
        48,  49,  50,  51,  52,  53,  54,  55,  56,  57,  65,  66,  67,
        68,  69,  70
    >>

\* Base16ReverseTable: the 256 entries as the macro B16ToInt expands them
\* (index = character code + 1; 255 marks an invalid character).
Base16ReverseTable ==
    <<
       255, 255, 255, 255, 255, 255, 255, 255, 255, 255, 255, 255, 255, 255, 255, 255,
       255, 255, 255, 255, 255, 255, 255, 255, 255, 255, 255, 255, 255, 255, 255, 255,
       255, 255, 255, 255, 255, 255, 255, 255, 255, 255, 255, 255, 255, 255, 255, 255,
         0,   1,   2,   3,   4,   5,   6,   7,   8,   9, 255, 255, 255, 255, 255, 255,
       255,  10,  11,  12,  13,  14,  15, 255, 255, 255, 255, 255, 255, 255, 255, 255,
       255, 255, 255, 255, 255, 255, 255, 255, 255, 255, 255, 255, 255, 255, 255, 255,
       255,  10,  11,  12,  13,  14,  15, 255, 255, 255, 255, 255, 255, 255, 255, 255,
       255, 255, 255, 255, 255, 255, 255, 255, 255, 255, 255, 255, 255, 255, 255, 255,
       255, 255, 255, 255, 255, 255, 255, 255, 255, 255, 255, 255, 255, 255, 255, 255,
       255, 255, 255, 255, 255, 255, 255, 255, 255, 255, 255, 255, 255, 255, 255, 255,
       255, 255, 255, 255, 255, 255, 255, 255, 255, 255, 255, 255, 255, 255, 255, 255,
       255, 255, 255, 255, 255, 255, 255, 255, 255, 255, 255, 255, 255, 255, 255, 255,
       255, 255, 255, 255, 255, 255, 255, 255, 255, 255, 255, 255, 255, 255, 255, 255,
       255, 255, 255, 255, 255, 255, 255, 255, 255, 255, 255, 255, 255, 255, 255, 255,
       255, 255, 255, 255, 255, 255, 255, 255, 255, 255, 255, 255, 255, 255, 255, 255,
       255, 255, 255, 255, 255, 255, 255, 255, 255, 255, 255, 255, 255, 255, 255, 255
    >>

\* Base32Table: the forward alphabet, as character codes (index = symbol value + 1).
Base32Table ==
    <<
        65,  66,  67,  68,  69,  70,  71,  72,  73,  74,  75,  76,  77,
        78,  79,  80,  81,  82,  83,  84,  85,  86,  87,  88,  89,  90,
        50,  51,  52,  53,  54,  55
    >>

\* Base32ReverseTable: the 256 entries as the macro B32ToInt expands them
\* (index = character code + 1; 255 marks an invalid character).
Base32ReverseTable ==
    <<
       255, 255, 255, 255, 255, 255, 255, 255, 255, 255, 255, 255, 255, 255, 255, 255,
       255, 255, 255, 255, 255, 255, 255, 255, 255, 255, 255, 255, 255, 255, 255, 255,
       255, 255, 255, 255, 255, 255, 255, 255, 255, 255, 255, 255, 255, 255, 255, 255,
       255, 255,  26,  27,  28,  29,  30,  31, 255, 255, 255, 255, 255, 255, 255, 255,
       255,   0,   1,   2,   3,   4,   5,   6,   7,   8,   9,  10,  11,  12,  13,  14,
        15,  16,  17,  18,  19,  20,  21,  22,  23,  24,  25, 255, 255, 255, 255, 255,
       255,   0,   1,   2,   3,   4,   5,   6,   7,   8,   9,  10,  11,  12,  13,  14,
        15,  16,  17,  18,  19,  20,  21,  22,  23,  24,  25, 255, 255, 255, 255, 255,
       255, 255, 255, 255, 255, 255, 255, 255, 255, 255, 255, 255, 255, 255, 255, 255,
       255, 255, 255, 255, 255, 255, 255, 255, 255, 255, 255, 255, 255, 255, 255, 255,
       255, 255, 255, 255, 255, 255, 255, 255, 255, 255, 255, 255, 255, 255, 255, 255,
       255, 255, 255, 255, 255, 255, 255, 255, 255, 255, 255, 255, 255, 255, 255, 255,
       255, 255, 255, 255, 255, 255, 255, 255, 255, 255, 255, 255, 255, 255, 255, 255,
       255, 255, 255, 255, 255, 255, 255, 255, 255, 255, 255, 255, 255, 255, 255, 255,
       255, 255, 255, 255, 255, 255, 255, 255, 255, 255, 255, 255, 255, 255, 255, 255,
       255, 255, 255, 255, 255, 255, 255, 255, 255, 255, 255, 255, 255, 255, 255, 255
    >>

\* Base45Table: the forward alphabet, as character codes (index = symbol value + 1).
Base45Table ==
    <<
        48,  49,  50,  51,  52,  53,  54,  55,  56,  57,  65,  66,  67,
        68,  69,  70,  71,  72,  73,  74,  75,  76,  77,  78,  79,  80,
        81,  82,  83,  84,  85,  86,  87,  88,  89,  90,  32,  36,  37,
        42,  43,  45,  46,  47,  58
    >>

\* Base45ReverseTable: the 256 entries as the macro B45ToInt expands them
\* (index = character code + 1; 255 marks an invalid character).
Base45ReverseTable ==
    <<
       255, 255, 255, 255, 255, 255, 255, 255, 255, 255, 255, 255, 255, 255, 255, 255,
       255, 255, 255, 255, 255, 255, 255, 255, 255, 255, 255, 255, 255, 255, 255, 255,
        36, 255, 255, 255,  37,  38, 255, 255, 255, 255,  39,  40, 255,  41,  42,  43,
         0,   1,   2,   3,   4,   5,   6,   7,   8,   9,  44, 255, 255, 255, 255, 255,
       255,  10,  11,  12,  13,  14,  15,  16,  17,  18,  19,  20,  21,  22,  23,  24,
        25,  26,  27,  28,  29,  30,  31,  32,  33,  34,  35, 255, 255, 255, 255, 255,
       255, 255, 255, 255, 255, 255, 255, 255, 255, 255, 255, 255, 255, 255, 255, 255,
       255, 255, 255, 255, 255, 255, 255, 255, 255, 255, 255, 255, 255, 255, 255, 255,
       255, 255, 255, 255, 255, 255, 255, 255, 255, 255, 255, 255, 255, 255, 255, 255,
       255, 255, 255, 255, 255, 255, 255, 255, 255, 255, 255, 255, 255, 255, 255, 255,
       255, 255, 255, 255, 255, 255, 255, 255, 255, 255, 255, 255, 255, 255, 255, 255,
       255, 255, 255, 255, 255, 255, 255, 255, 255, 255, 255, 255, 255, 255, 255, 255,
       255, 255, 255, 255, 255, 255, 255, 255, 255, 255, 255, 255, 255, 255, 255, 255,
       255, 255, 255, 255, 255, 255, 255, 255, 255, 255, 255, 255, 255, 255, 255, 255,
       255, 255, 255, 255, 255, 255, 255, 255, 255, 255, 255, 255, 255, 255, 255, 255,
       255, 255, 255, 255, 255, 255, 255, 255, 255, 255, 255, 255, 255, 255, 255, 255
    >>

\* Base58Table: the forward alphabet, as character codes (index = symbol value + 1).
Base58Table ==
    <<
        49,  50,  51,  52,  53,  54,  55,  56,  57,  65,  66,  67,  68,
        69,  70,  71,  72,  74,  75,  76,  77,  78,  80,  81,  82,  83,
        84,  85,  86,  87,  88,  89,  90,  97,  98,  99, 100, 101, 102,
       103, 104, 105, 106, 107, 109, 110, 111, 112, 113, 114, 115, 116,
       117, 118, 119, 120, 121, 122
    >>

\* Base58ReverseTable: the 256 entries as the macro B58ToInt expands them
\* (index = character code + 1; 255 marks an invalid character).
Base58ReverseTable ==
    <<
       255, 255, 255, 255, 255, 255, 255, 255, 255, 255, 255, 255, 255, 255, 255, 255,
       255, 255, 255, 255, 255, 255, 255, 255, 255, 255, 255, 255, 255, 255, 255, 255,
       255, 255, 255, 255, 255, 255, 255, 255, 255, 255, 255, 255, 255, 255, 255, 255,
       255,   0,   1,   2,   3,   4,   5,   6,   7,   8, 255, 255, 255, 255, 255, 255,
       255,   9,  10,  11,  12,  13,  14,  15,  16, 255,  17,  18,  19,  20,  21, 255,
        22,  23,  24,  25,  26,  27,  28,  29,  30,  31,  32, 255, 255, 255, 255, 255,
       255,  33,  34,  35,  36,  37,  38,  39,  40,  41,  42,  43, 255,  44,  45,  46,
        47,  48,  49,  50,  51,  52,  53,  54,  55,  56,  57, 255, 255, 255, 255, 255,
       255, 255, 255, 255, 255, 255, 255, 255, 255, 255, 255, 255, 255, 255, 255, 255,
       255, 255, 255, 255, 255, 255, 255, 255, 255, 255, 255, 255, 255, 255, 255, 255,
       255, 255, 255, 255, 255, 255, 255, 255, 255, 255, 255, 255, 255, 255, 255, 255,
       255, 255, 255, 255, 255, 255, 255, 255, 255, 255, 255, 255, 255, 255, 255, 255,
       255, 255, 255, 255, 255, 255, 255, 255, 255, 255, 255, 255, 255, 255, 255, 255,
       255, 255, 255, 255, 255, 255, 255, 255, 255, 255, 255, 255, 255, 255, 255, 255,
       255, 255, 255, 255, 255, 255, 255, 255, 255, 255, 255, 255, 255, 255, 255, 255,
       255, 255, 255, 255, 255, 255, 255, 255, 255, 255, 255, 255, 255, 255, 255, 255
    >>

\* Base64Table: the forward alphabet, as character codes (index = symbol value + 1).
Base64Table ==
    <<
        65,  66,  67,  68,  69,  70,  71,  72,  73,  74,  75,  76,  77,
        78,  79,  80,  81,  82,  83,  84,  85,  86,  87,  88,  89,  90,
        97,  98,  99, 100, 101, 102, 103, 104, 105, 106, 107, 108, 109,
       110, 111, 112, 113, 114, 115, 116, 117, 118, 119, 120, 121, 122,
        48,  49,  50,  51,  52,  53,  54,  55,  56,  57,  43,  47
    >>

\* Base64ReverseTable: the 256 entries as the macro B64ToInt expands them
\* (index = character code + 1; 255 marks an invalid character).
Base64ReverseTable ==
    <<
       255, 255, 255, 255, 255, 255, 255, 255, 255, 255, 255, 255, 255, 255, 255, 255,
       255, 255, 255, 255, 255, 255, 255, 255, 255, 255, 255, 255, 255, 255, 255, 255,
       255, 255, 255, 255, 255, 255, 255, 255, 255, 255, 255,  62, 255, 255, 255,  63,
        52,  53,  54,  55,  56,  57,  58,  59,  60,  61, 255, 255, 255, 255, 255, 255,
       255,   0,   1,   2,   3,   4,   5,   6,   7,   8,   9,  10,  11,  12,  13,  14,
        15,  16,  17,  18,  19,  20,  21,  22,  23,  24,  25, 255, 255, 255, 255, 255,
       255,  26,  27,  28,  29,  30,  31,  32,  33,  34,  35,  36,  37,  38,  39,  40,
        41,  42,  43,  44,  45,  46,  47,  48,  49,  50,  51, 255, 255, 255, 255, 255,
       255, 255, 255, 255, 255, 255, 255, 255, 255, 255, 255, 255, 255, 255, 255, 255,
       255, 255, 255, 255, 255, 255, 255, 255, 255, 255, 255, 255, 255, 255, 255, 255,
       255, 255, 255, 255, 255, 255, 255, 255, 255, 255, 255, 255, 255, 255, 255, 255,
       255, 255, 255, 255, 255, 255, 255, 255, 255, 255, 255, 255, 255, 255, 255, 255,
       255, 255, 255, 255, 255, 255, 255, 255, 255, 255, 255, 255, 255, 255, 255, 255,
       255, 255, 255, 255, 255, 255, 255, 255, 255, 255, 255, 255, 255, 255, 255, 255,
       255, 255, 255, 255, 255, 255, 255, 255, 255, 255, 255, 255, 255, 255, 255, 255,
       255, 255, 255, 255, 255, 255, 255, 255, 255, 255, 255, 255, 255, 255, 255, 255
    >>
InvalidBase16Character == 255

InvalidBase32Character == 255

InvalidBase45Character == 255

InvalidBase58Character == 255

InvalidBase64Character == 255

Base32PaddingCharacter == 61

Base64PaddingCharacter == 61

(***************************************************************************)
(* Terra::Base16                                                           *)
(***************************************************************************)

\* mutant of B16EncodeOctet: the nibbles swapped
B16EncodeOctetLowFirst(octet) ==
    << Base16Table[LowBits(octet, 4) + 1],
       Base16Table[LowBits(Shr(octet, 4), 4) + 1] >>

\* the two characters written for one octet: high nibble, then low nibble
B16EncodeOctet(octet) ==
    << Base16Table[LowBits(Shr(octet, 4), 4) + 1],
       Base16Table[LowBits(octet, 4) + 1] >>

RECURSIVE B16EncodeLoop(_, _, _)
B16EncodeLoop(input, i, output) ==
    IF i > Len(input) THEN output
    ELSE B16EncodeLoop(input, i + 1, output \o B16EncodeOctet(input[i]))

B16Encode(input) ==
    IF Len(input) = 0 THEN << >> ELSE B16EncodeLoop(input, 1, << >>)

\* mutant of B16ToInt: only the uppercase digits A-F are recognised
B16ToIntUpperOnly(c) ==
    IF c \in 97..102 THEN InvalidBase16Character
    ELSE Base16ReverseTable[c + 1]

\* the reverse lookup: the symbol value of character c, or Invalid
B16ToInt(c) == Base16ReverseTable[c + 1]

\* one pass of the decoding loop over character c
B16DecodeStep(st, c) ==
    LET octet == B16ToInt(c)
        group == Shl(st.group, 4) + LowBits(octet, 4)
        group_size == st.group_size + 4
    IN  IF octet = InvalidBase16Character THEN st
        ELSE IF group_size = 8
             THEN [group |-> group, group_size |-> 0,
                   output |-> Append(st.output, LowBits(group, 8))]
             ELSE [group |-> group, group_size |-> group_size,
                   output |-> st.output]

RECURSIVE B16DecodeLoop(_, _, _)
B16DecodeLoop(input, i, st) ==
    IF i > Len(input) THEN st
    ELSE B16DecodeLoop(input, i + 1, B16DecodeStep(st, input[i]))

\* mutant of B16DecodeFinish: a dangling nibble is dropped silently
B16DecodeFinishLenient(st) == st.output

\* the check after the loop: a dangling nibble is an error
B16DecodeFinish(st) == IF st.group_size > 0 THEN << >> ELSE st.output

B16Decode(input) ==
    IF Len(input) = 0 THEN << >>
    ELSE B16DecodeFinish(
             B16DecodeLoop(input, 1,
                           [group |-> 0, group_size |-> 0, output |-> << >>]))

(***************************************************************************)
(* Terra::Base58                                                           *)
(***************************************************************************)

\* std::isspace in the "C" locale: space, \t, \n, \v, \f, \r
IsSpace(c) == c = 32 \/ c \in 9..13

\* mutant of B58EncodeMaxOutputLength: a buffer as long as the input
B58EncodeMaxOutputLengthTight(input_length) == input_length

\* input_length * 137 / 100 + 1
B58EncodeMaxOutputLength(input_length) == (input_length * 137) \div 100 + 1

\* the number of leading 0x00 octets
RECURSIVE B58CountZeros(_, _)
B58CountZeros(input, i) ==
    IF i <= Len(input) /\ input[i] = 0 THEN 1 + B58CountZeros(input, i + 1)
    ELSE 0

\* one pass of Encode's inner loop at index j (the break is decided before it)
B58EncodeDigit(st, j, zeros) ==
    LET carry == st.carry + st.output[j - zeros + 1] * 256
    IN  [st EXCEPT
            !.output = [st.output EXCEPT ![j - zeros + 1] = carry % 58],
            !.output_length = IF j = st.output_length
                              THEN st.output_length + 1
                              ELSE st.output_length,
            !.carry = carry \div 58]

\* mutant of B58EncodeInner: the loop stops at the logical length and never
\* grows it
RECURSIVE B58EncodeInnerNoGrow(_, _, _, _)
B58EncodeInnerNoGrow(st, j, zeros, max_output_length) ==
    IF j >= max_output_length \/ j >= st.output_length THEN st
    ELSE B58EncodeInnerNoGrow(B58EncodeDigit(st, j, zeros), j + 1, zeros,
                              max_output_length)

\* Encode's inner loop from index j on
RECURSIVE B58EncodeInner(_, _, _, _)
B58EncodeInner(st, j, zeros, max_output_length) ==
    IF j >= max_output_length THEN st
    ELSE IF j = st.output_length /\ st.carry = 0 THEN st
    ELSE B58EncodeInner(B58EncodeDigit(st, j, zeros), j + 1, zeros,
                        max_output_length)

\* Encode's outer loop from input index i on; failed is the early "return {}"
RECURSIVE B58EncodeOuter(_, _, _, _, _)
B58EncodeOuter(input, i, st, zeros, max_output_length) ==
    IF i >= Len(input) THEN [st EXCEPT !.failed = FALSE]
    ELSE LET after == B58EncodeInner([st EXCEPT !.carry = input[i + 1]],
                                     zeros, zeros, max_output_length)
         IN  IF after.carry > 0 THEN [after EXCEPT !.failed = TRUE]
             ELSE B58EncodeOuter(input, i + 1, after, zeros, max_output_length)

\* the digit array and its logical length once every octet is consumed
B58EncodeDigits(input) ==
    LET max_output_length == B58EncodeMaxOutputLength(Len(input))
        zeros == B58CountZeros(input, 1)
    IN  B58EncodeOuter(input, zeros,
                       [output |-> Fill(max_output_length, 0),
                        output_length |-> zeros, carry |-> 0, failed |-> FALSE],
                       zeros, max_output_length)

\* mutant of B58EncodeSubstIndices: the loop starts at index 1
B58EncodeSubstIndicesFromOne(output_length) == 1..output_length

\* the indices the character substitution loop visits: i = 0; i <= output_length
B58EncodeSubstIndices(output_length) == 0..output_length

\* output.resize(output_length), then the substitution loop over the buffer
\* with its terminator (at index output_length, holding 0 after the resize)
B58EncodeSubstitute(digits, output_length) ==
    LET buffer == SubSeq(digits, 1, output_length) \o << 0 >>
    IN  [i \in 1..(output_length + 1) |->
            IF (i - 1) \in B58EncodeSubstIndices(output_length)
            THEN Base58Table[buffer[i] + 1] ELSE buffer[i]]

\* Encode with the whole buffer: str is the returned string's characters
\* [begin, end) after std::reverse, terminator what the loop left at
\* output[output_length]
B58EncodeFull(input) ==
    IF Len(input) = 0 THEN [str |-> << >>, terminator |-> 0, failed |-> FALSE]
    ELSE LET d == B58EncodeDigits(input)
             buffer == B58EncodeSubstitute(d.output, d.output_length)
         IN  IF d.failed
             THEN [str |-> << >>, terminator |-> 0, failed |-> TRUE]
             ELSE [str |-> Reverse(SubSeq(buffer, 1, d.output_length)),
                   terminator |-> buffer[d.output_length + 1],
                   failed |-> FALSE]

B58Encode(input) == B58EncodeFull(input).str

\* mutant of B58ToInt: '0' taken for the digit zero
B58ToIntLenient(c) == IF c = 48 THEN 0 ELSE Base58ReverseTable[c + 1]

\* the reverse table's entry for character c
B58ToInt(c) == Base58ReverseTable[c + 1]

\* mutant of B58DecodeLeading: whitespace ends the run of leading '1's
RECURSIVE B58DecodeLeadingNoSkip(_, _, _)
B58DecodeLeadingNoSkip(input, i, st) ==
    IF i >= Len(input) THEN st
    ELSE IF input[i + 1] = 49
         THEN B58DecodeLeadingNoSkip(input, i + 1,
                  [zeros |-> st.zeros + 1, digits_start |-> st.digits_start + 1])
    ELSE st

\* Decode's first loop: zeros and digits_start after the leading '1' characters
\* and the whitespace among them
RECURSIVE B58DecodeLeading(_, _, _)
B58DecodeLeading(input, i, st) ==
    IF i >= Len(input) THEN st
    ELSE IF input[i + 1] = 49
         THEN B58DecodeLeading(input, i + 1,
                  [zeros |-> st.zeros + 1, digits_start |-> st.digits_start + 1])
    ELSE IF IsSpace(input[i + 1])
         THEN B58DecodeLeading(input, i + 1,
                  [zeros |-> st.zeros, digits_start |-> st.digits_start + 1])
    ELSE st

\* one pass of Decode's inner loop at index j (the break is decided before it)
B58DecodeDigit(st, j) ==
    LET carry == st.carry + 58 * st.output[j + 1]
    IN  [st EXCEPT
            !.output = [st.output EXCEPT ![j + 1] = carry % 256],
            !.output_length = IF j = st.output_length
                              THEN st.output_length + 1
                              ELSE st.output_length,
            !.carry = carry \div 256]

\* Decode's inner loop from index j on
RECURSIVE B58DecodeInner(_, _, _)
B58DecodeInner(st, j, max_output_length) ==
    IF j >= max_output_length THEN st
    ELSE IF j = st.output_length /\ st.carry = 0 THEN st
    ELSE B58DecodeInner(B58DecodeDigit(st, j), j + 1, max_output_length)

\* Decode's second loop from input index i on; failed is the early "return {}"
RECURSIVE B58DecodeOuter(_, _, _, _)
B58DecodeOuter(input, i, st, max_output_length) ==
    IF i >= Len(input) THEN [st EXCEPT !.failed = FALSE]
    ELSE IF IsSpace(input[i + 1])
         THEN B58DecodeOuter(input, i + 1, st, max_output_length)
    ELSE IF B58ToInt(input[i + 1]) = InvalidBase58Character
         THEN [st EXCEPT !.failed = TRUE]
    ELSE LET after == B58DecodeInner(
                          [st EXCEPT !.carry = B58ToInt(input[i + 1])],
                          0, max_output_length)
         IN  IF after.carry > 0 THEN [after EXCEPT !.failed = TRUE]
             ELSE B58DecodeOuter(input, i + 1, after, max_output_length)

\* mutant of B58DecodeFinish: the zeros are not appended
B58DecodeFinishNoZeros(st, zeros) ==
    Reverse(SubSeq(st.output, 1, st.output_length))

\* resize to output_length, append the zeros, reverse
B58DecodeFinish(st, zeros) ==
    Reverse(SubSeq(st.output, 1, st.output_length) \o Fill(zeros, 0))

B58Decode(input) ==
    IF Len(input) = 0 THEN << >>
    ELSE LET max_output_length == Len(input)
             lead == B58DecodeLeading(input, 0,
                                      [zeros |-> 0, digits_start |-> 0])
             st == B58DecodeOuter(input, lead.digits_start,
                       [output |-> Fill(max_output_length, 0),
                        output_length |-> 0, carry |-> 0, failed |-> FALSE],
                       max_output_length)
         IN  IF st.failed THEN << >> ELSE B58DecodeFinish(st, lead.zeros)

(***************************************************************************)
(* Terra::Base64                                                           *)
(***************************************************************************)

\* the Base64 character for bits [shift, shift + 6) of group
B64Symbol(group, shift) == Base64Table[LowBits(Shr(group, shift), 6) + 1]

\* one pass of the encoding loop over one octet
B64EncodeStep(st, octet) ==
    LET group == Shl(st.group, 8) + octet
        group_size == st.group_size + 8
    IN  IF group_size = 24
        THEN [group |-> 0, group_size |-> 0,
              output |-> st.output \o << B64Symbol(group, 18),
                                         B64Symbol(group, 12),
                                         B64Symbol(group, 6),
                                         B64Symbol(group, 0) >>]
        ELSE [group |-> group, group_size |-> group_size,
              output |-> st.output]

RECURSIVE B64EncodeLoop(_, _, _)
B64EncodeLoop(input, i, st) ==
    IF i > Len(input) THEN st
    ELSE B64EncodeLoop(input, i + 1, B64EncodeStep(st, input[i]))

\* mutant of B64EncodeFinish: the padding characters are left out
B64EncodeFinishNoPadding(st) ==
    LET group == Shl(st.group, 24 - st.group_size)
    IN  IF st.group_size > 0
        THEN st.output \o << B64Symbol(group, 18), B64Symbol(group, 12) >> \o
             (IF st.group_size = 8 THEN << >>
              ELSE << B64Symbol(group, 6) >>)
        ELSE st.output

\* the partial group after the loop: two or three characters and the padding
B64EncodeFinish(st) ==
    LET group == Shl(st.group, 24 - st.group_size)
    IN  IF st.group_size > 0
        THEN st.output \o << B64Symbol(group, 18), B64Symbol(group, 12) >> \o
             (IF st.group_size = 8
              THEN << Base64PaddingCharacter, Base64PaddingCharacter >>
              ELSE << B64Symbol(group, 6), Base64PaddingCharacter >>)
        ELSE st.output

B64Encode(input) ==
    IF Len(input) = 0 THEN << >>
    ELSE B64EncodeFinish(
             B64EncodeLoop(input, 1,
                           [group |-> 0, group_size |-> 0, output |-> << >>]))

\* mutant of B64ToInt: a lowercase letter is looked up as its uppercase
B64ToIntCaseFolded(c) ==
    Base64ReverseTable[(IF c \in 97..122 THEN c - 32 ELSE c) + 1]

\* the reverse lookup: the symbol value of character c, or Invalid
B64ToInt(c) == Base64ReverseTable[c + 1]

\* mutant of B64DecodeStep: a character outside the alphabet is not skipped
B64DecodeStepNoSkip(st, c) ==
    LET octet == B64ToInt(c)
        group == Shl(st.group, 6) + LowBits(octet, 6)
        group_size == st.group_size + 6
    IN  IF group_size = 24
        THEN [group |-> 0, group_size |-> 0,
              output |-> st.output \o << LowBits(Shr(group, 16), 8),
                                         LowBits(Shr(group, 8), 8),
                                         LowBits(group, 8) >>]
        ELSE [group |-> group, group_size |-> group_size,
              output |-> st.output]

\* one pass of the decoding loop over a character that is not the padding
B64DecodeStep(st, c) ==
    LET octet == B64ToInt(c)
        group == Shl(st.group, 6) + LowBits(octet, 6)
        group_size == st.group_size + 6
    IN  IF octet = InvalidBase64Character THEN st
        ELSE IF group_size = 24
             THEN [group |-> 0, group_size |-> 0,
                   output |-> st.output \o << LowBits(Shr(group, 16), 8),
                                              LowBits(Shr(group, 8), 8),
                                              LowBits(group, 8) >>]
             ELSE [group |-> group, group_size |-> group_size,
                   output |-> st.output]

\* the decoding loop, left at the first padding character
RECURSIVE B64DecodeLoop(_, _, _)
B64DecodeLoop(input, i, st) ==
    IF i > Len(input) THEN st
    ELSE IF input[i] = Base64PaddingCharacter THEN st
    ELSE B64DecodeLoop(input, i + 1, B64DecodeStep(st, input[i]))

\* mutant of B64DecodeFinish: the partial group is dropped
B64DecodeFinishDrop(st) == st.output

\* the partial group after the loop
B64DecodeFinish(st) ==
    LET group == Shl(st.group, 24 - st.group_size)
    IN  IF st.group_size > 0
        THEN st.output \o << LowBits(Shr(group, 16), 8) >> \o
             (IF st.group_size >= 16
              THEN << LowBits(Shr(group, 8), 8) >> \o
                   (IF st.group_size = 24 THEN << LowBits(group, 8) >>
                    ELSE << >>)
              ELSE << >>)
        ELSE st.output

B64Decode(input) ==
    IF Len(input) = 0 THEN << >>
    ELSE B64DecodeFinish(
             B64DecodeLoop(input, 1,
                           [group |-> 0, group_size |-> 0, output |-> << >>]))

(***************************************************************************)
(* Terra::Base32                                                           *)
(***************************************************************************)

\* the do-while of Encode: one character per 5 bits while 5 or more are left
RECURSIVE B32EncodeEmit(_)
B32EncodeEmit(st) ==
    LET next == [group |-> st.group,
                 group_size |-> st.group_size - 5,
                 quantum |-> st.quantum + 1,
                 output |-> Append(st.output,
                     Base32Table[LowBits(Shr(st.group, st.group_size - 5), 5)
                                 + 1])]
    IN  IF next.group_size >= 5 THEN B32EncodeEmit(next) ELSE next

\* mutant of B32EncodeStep: quantum is not set back to 0 at a full block
B32EncodeStepNoReset(st, octet) ==
    B32EncodeEmit([st EXCEPT !.group = Shl(st.group, 8) + octet,
                             !.group_size = st.group_size + 8])

\* one pass of the encoding loop over one octet
B32EncodeStep(st, octet) ==
    LET after == B32EncodeEmit([st EXCEPT
                                   !.group = Shl(st.group, 8) + octet,
                                   !.group_size = st.group_size + 8])
    IN  IF after.quantum = 8 THEN [after EXCEPT !.quantum = 0] ELSE after

RECURSIVE B32EncodeLoop(_, _, _)
B32EncodeLoop(input, i, st) ==
    IF i > Len(input) THEN st
    ELSE B32EncodeLoop(input, i + 1, B32EncodeStep(st, input[i]))

\* the padding appended after the last character
B32EncodePadding(quantum) ==
    IF quantum < 8 THEN Fill(8 - quantum, Base32PaddingCharacter) ELSE << >>

\* mutant of B32EncodeFinish: the residual bits are not shifted into place
B32EncodeFinishNoShift(st) ==
    IF st.group_size > 0
    THEN Append(st.output, Base32Table[LowBits(st.group, 5) + 1]) \o
         B32EncodePadding(st.quantum + 1)
    ELSE st.output

\* the partial group after the loop: one more character and the padding
B32EncodeFinish(st) ==
    LET group == Shl(st.group, 5 - (st.group_size % 5))
    IN  IF st.group_size > 0
        THEN Append(st.output, Base32Table[LowBits(group, 5) + 1]) \o
             B32EncodePadding(st.quantum + 1)
        ELSE st.output

B32Encode(input) ==
    IF Len(input) = 0 THEN << >>
    ELSE B32EncodeFinish(
             B32EncodeLoop(input, 1,
                           [group |-> 0, group_size |-> 0, quantum |-> 0,
                            output |-> << >>]))

\* mutant of B32ToInt: only the uppercase letters are recognised
B32ToIntUpperOnly(c) ==
    IF c \in 97..122 THEN InvalidBase32Character
    ELSE Base32ReverseTable[c + 1]

\* the reverse lookup: the symbol value of character c, or Invalid
B32ToInt(c) == Base32ReverseTable[c + 1]

\* one pass of the decoding loop over a character that is not the padding
B32DecodeStep(st, c) ==
    LET octet == B32ToInt(c)
        group == Shl(st.group, 5) + LowBits(octet, 5)
        group_size == st.group_size + 5
    IN  IF octet = InvalidBase32Character THEN st
        ELSE IF group_size >= 8
             THEN [group |-> group, group_size |-> group_size - 8,
                   output |-> Append(st.output,
                                     LowBits(Shr(group, group_size - 8), 8))]
             ELSE [group |-> group, group_size |-> group_size,
                   output |-> st.output]

\* mutant of B32DecodeLoop: the padding character is skipped like any other
\* character outside the alphabet and the loop goes on
RECURSIVE B32DecodeLoopSkipPadding(_, _, _)
B32DecodeLoopSkipPadding(input, i, st) ==
    IF i > Len(input) THEN st
    ELSE B32DecodeLoopSkipPadding(input, i + 1, B32DecodeStep(st, input[i]))

\* the decoding loop, left at the first padding character
RECURSIVE B32DecodeLoop(_, _, _)
B32DecodeLoop(input, i, st) ==
    IF i > Len(input) THEN st
    ELSE IF input[i] = Base32PaddingCharacter THEN st
    ELSE B32DecodeLoop(input, i + 1, B32DecodeStep(st, input[i]))

\* mutant of B32DecodeFinish: the residual bits are not looked at
B32DecodeFinishLenient(st) == st.output

\* mutant of B32DecodeFinish: any residual bits are an error
B32DecodeFinishStrict(st) == IF st.group_size > 0 THEN << >> ELSE st.output

\* the check after the loop: group & ~(all ones << group_size) must be 0
B32DecodeFinish(st) ==
    IF st.group_size > 0 /\ LowBits(st.group, st.group_size) # 0 THEN << >>
    ELSE st.output

B32Decode(input) ==
    IF Len(input) = 0 THEN << >>
    ELSE B32DecodeFinish(
             B32DecodeLoop(input, 1,
                           [group |-> 0, group_size |-> 0, output |-> << >>]))

(***************************************************************************)
(* Terra::Base45                                                           *)
(***************************************************************************)

\* mutant of B45EncodePair: the most significant character comes first
B45EncodePairBigEndian(group) ==
    << Base45Table[((group \div 2025) % 45) + 1],
       Base45Table[((group \div 45) % 45) + 1],
       Base45Table[(group % 45) + 1] >>

\* the three characters of a full group, least significant first
B45EncodePair(group) ==
    << Base45Table[(group % 45) + 1],
       Base45Table[((group \div 45) % 45) + 1],
       Base45Table[((group \div 2025) % 45) + 1] >>

\* the two characters of a trailing single octet
B45EncodeSingle(group) ==
    << Base45Table[(group % 45) + 1],
       Base45Table[((group \div 45) % 45) + 1] >>

\* one pass of the encoding loop over one octet
B45EncodeStep(st, octet) ==
    LET group == Shl(st.group, 8) + octet
        group_size == st.group_size + 1
    IN  IF group_size = 2
        THEN [group |-> 0, group_size |-> 0,
              output |-> st.output \o B45EncodePair(group)]
        ELSE [group |-> group, group_size |-> group_size,
              output |-> st.output]

RECURSIVE B45EncodeLoop(_, _, _)
B45EncodeLoop(input, i, st) ==
    IF i > Len(input) THEN st
    ELSE B45EncodeLoop(input, i + 1, B45EncodeStep(st, input[i]))

\* mutant of B45EncodeFinish: a trailing single octet is dropped
B45EncodeFinishDrop(st) == st.output

\* the partial group after the loop: a trailing single octet
B45EncodeFinish(st) ==
    IF st.group_size > 0 THEN st.output \o B45EncodeSingle(st.group)
    ELSE st.output

B45Encode(input) ==
    IF Len(input) = 0 THEN << >>
    ELSE B45EncodeFinish(
             B45EncodeLoop(input, 1,
                           [group |-> 0, group_size |-> 0, output |-> << >>]))

\* mutant of B45OctetPair: the first symbol taken as the most significant
B45OctetPairBigEndian(group) ==
    LowBits(Shr(group, 16), 8) * 2025 + LowBits(Shr(group, 8), 8) * 45 +
    LowBits(group, 8)

\* the value of a full group of three symbols, before it is cut to octets
B45OctetPair(group) ==
    LowBits(Shr(group, 16), 8) + LowBits(Shr(group, 8), 8) * 45 +
    LowBits(group, 8) * 2025

\* mutant of B45ToInt: a lowercase letter is looked up as its uppercase
B45ToIntCaseFolded(c) ==
    Base45ReverseTable[(IF c \in 97..122 THEN c - 32 ELSE c) + 1]

\* the reverse lookup: the symbol value of character c, or Invalid
B45ToInt(c) == Base45ReverseTable[c + 1]

\* mutant of B45DecodeStep: a character outside the alphabet is not skipped
B45DecodeStepNoSkip(st, c) ==
    LET octet == B45ToInt(c)
        group == Shl(st.group, 8) + octet
        group_size == st.group_size + 1
    IN  IF group_size = 3
        THEN [group |-> 0, group_size |-> 0,
              output |-> st.output \o
                  << LowBits(Shr(B45OctetPair(group), 8), 8),
                     LowBits(B45OctetPair(group), 8) >>]
        ELSE [group |-> group, group_size |-> group_size,
              output |-> st.output]

\* mutant of B45DecodeStep: a character outside the alphabet ends the group
\* at hand
B45DecodeStepResetOnInvalid(st, c) ==
    LET octet == B45ToInt(c)
        group == Shl(st.group, 8) + octet
        group_size == st.group_size + 1
    IN  IF octet = InvalidBase45Character
        THEN [group |-> 0, group_size |-> 0, output |-> st.output]
        ELSE IF group_size = 3
             THEN [group |-> 0, group_size |-> 0,
                   output |-> st.output \o
                       << LowBits(Shr(B45OctetPair(group), 8), 8),
                          LowBits(B45OctetPair(group), 8) >>]
             ELSE [group |-> group, group_size |-> group_size,
                   output |-> st.output]

\* one pass of the decoding loop over character c
B45DecodeStep(st, c) ==
    LET octet == B45ToInt(c)
        group == Shl(st.group, 8) + octet
        group_size == st.group_size + 1
    IN  IF octet = InvalidBase45Character THEN st
        ELSE IF group_size = 3
             THEN [group |-> 0, group_size |-> 0,
                   output |-> st.output \o
                       << LowBits(Shr(B45OctetPair(group), 8), 8),
                          LowBits(B45OctetPair(group), 8) >>]
             ELSE [group |-> group, group_size |-> group_size,
                   output |-> st.output]

RECURSIVE B45DecodeLoop(_, _, _)
B45DecodeLoop(input, i, st) ==
    IF i > Len(input) THEN st
    ELSE B45DecodeLoop(input, i + 1, B45DecodeStep(st, input[i]))

\* mutant of B45DecodeFinish: a single dangling symbol is dropped silently
B45DecodeFinishLenient(st) ==
    IF st.group_size = 2
    THEN Append(st.output,
                LowBits(LowBits(Shr(st.group, 8), 8) +
                        LowBits(st.group, 8) * 45, 8))
    ELSE st.output

\* the partial group after the loop: two symbols give one octet, one is an error
B45DecodeFinish(st) ==
    IF st.group_size > 0
    THEN IF st.group_size # 2 THEN << >>
         ELSE Append(st.output,
                     LowBits(LowBits(Shr(st.group, 8), 8) +
                             LowBits(st.group, 8) * 45, 8))
    ELSE st.output

B45Decode(input) ==
    IF Len(input) = 0 THEN << >>
    ELSE B45DecodeFinish(
             B45DecodeLoop(input, 1,
                           [group |-> 0, group_size |-> 0, output |-> << >>]))

(***************************************************************************)
(* The callers.  A run picks a codec and an input, either octets to encode *)
(* or a string to decode; an encoded or given string may be edited on its  *)
(* way (whitespace inserted, the padding removed) and is then decoded.     *)
(***************************************************************************)
VARIABLES
    codec,      \* "B16", "B32", "B45", "B58" or "B64"
    pc,         \* "octets": Encode is to be called; "text": Decode is to be
                \* called; "done": Decode has returned
    octets,     \* the argument of Encode
    text,       \* the argument of Decode
    orig,       \* text as Encode returned it or as the caller gave it
    result,     \* what Decode returned
    encoded,    \* whether orig is Encode(octets)
    inserted,   \* how many whitespace characters were inserted into orig
    stripped,   \* whether the padding was removed from orig
    terminator  \* the character after the end of the string Encode returned

vars == << codec, pc, octets, text, orig, result, encoded, inserted, stripped,
           terminator >>

Codecs == {"B16", "B32", "B45", "B58", "B64"}

Encode(c, input) ==
    CASE c = "B16" -> B16Encode(input)
      [] c = "B32" -> B32Encode(input)
      [] c = "B45" -> B45Encode(input)
      [] c = "B58" -> B58Encode(input)
      [] c = "B64" -> B64Encode(input)

Decode(c, input) ==
    CASE c = "B16" -> B16Decode(input)
      [] c = "B32" -> B32Decode(input)
      [] c = "B45" -> B45Decode(input)
      [] c = "B58" -> B58Decode(input)
      [] c = "B64" -> B64Decode(input)

\* Bounds of the model: the longest octet sequence encoded, per codec
MaxOctets16 == 3

MaxOctets32 == 6

MaxOctets45 == 3

MaxOctets58 == 4

MaxOctets64 == 4

\* the longest string given to Decode directly, and the longest string edited
MaxText == 3

\* the most whitespace characters inserted into one string
MaxInserts == 1

MaxOctets(c) ==
    CASE c = "B16" -> MaxOctets16
      [] c = "B32" -> MaxOctets32
      [] c = "B45" -> MaxOctets45
      [] c = "B58" -> MaxOctets58
      [] c = "B64" -> MaxOctets64

\* the octet values inputs are built from
OctetSamples(c) ==
    CASE c = "B16" -> {0, 10, 171, 255}
      [] c = "B32" -> {0, 102, 255}
      [] c = "B45" -> {0, 1, 44, 45, 65, 66, 255}
      [] c = "B58" -> {0, 1, 57, 58, 255}
      [] c = "B64" -> {0, 102, 251, 255}

\* the characters strings given to Decode directly are built from
TextSamples(c) ==
    CASE c = "B16" -> {48, 70, 97, 71, 32}              \* 0 F a G space
      [] c = "B32" -> {65, 55, 98, 61, 49}              \* A 7 b = 1
      [] c = "B45" -> {48, 66, 58, 98, 10}              \* 0 B : b \n
      [] c = "B58" -> {49, 50, 122, 48, 108}            \* 1 2 z 0 l
      [] c = "B64" -> {65, 97, 47, 61, 32}              \* A a / = space

\* space, tab, newline, carriage return
WhitespaceChars == {32, 9, 10, 13}

InsertAt(s, pos, c) == SubSeq(s, 1, pos) \o << c >> \o SubSeq(s, pos + 1, Len(s))

NotPadding(c) == c # Base64PaddingCharacter

InitFor(cs) ==
    /\ codec \in cs
    /\ \/ /\ pc = "octets"
          /\ octets \in SeqsUpTo(OctetSamples(codec), MaxOctets(codec))
          /\ text = << >>
       \/ /\ pc = "text"
          /\ octets = << >>
          /\ text \in SeqsUpTo(TextSamples(codec), MaxText)
    /\ orig = text
    /\ result = << >>
    /\ encoded = FALSE
    /\ inserted = 0
    /\ stripped = FALSE
    /\ terminator = 0

\* text = Encode(octets).  Base58's substitution loop also writes the
\* character after the end of the string, which the language leaves undefined:
\* the terminator is what the loop wrote or the 0 the string had.
CallEncode ==
    /\ pc = "octets"
    /\ text' = Encode(codec, octets)
    /\ orig' = text'
    /\ encoded' = TRUE
    /\ terminator' \in IF codec = "B58"
                       THEN {0, B58EncodeFull(octets).terminator}
                       ELSE {0}
    /\ pc' = "text"
    /\ UNCHANGED << codec, octets, result, inserted, stripped >>

\* the caller inserts one whitespace character somewhere into the string
InsertWhitespace ==
    /\ pc = "text"
    /\ inserted < MaxInserts
    /\ Len(orig) <= MaxText
    /\ \E pos \in 0..Len(text), c \in WhitespaceChars :
           text' = InsertAt(text, pos, c)
    /\ inserted' = inserted + 1
    /\ UNCHANGED << codec, pc, octets, orig, result, encoded, stripped,
                    terminator >>

\* the caller removes every '=' from the string
StripPadding ==
    /\ pc = "text"
    /\ codec \in {"B32", "B64"}
    /\ ~stripped
    /\ text' = SelectSeq(text, NotPadding)
    /\ stripped' = TRUE
    /\ UNCHANGED << codec, pc, octets, orig, result, encoded, inserted,
                    terminator >>

\* result = Decode(text)
CallDecode ==
    /\ pc = "text"
    /\ result' = Decode(codec, text)
    /\ pc' = "done"
    /\ UNCHANGED << codec, octets, text, orig, encoded, inserted, stripped,
                    terminator >>

NextPlain == CallEncode \/ InsertWhitespace \/ CallDecode

NextStrip == CallEncode \/ StripPadding \/ CallDecode

Init == InitFor(Codecs)

Next == CallEncode \/ InsertWhitespace \/ StripPadding \/ CallDecode

Spec == Init /\ [][Next]_vars

SpecB16 == InitFor({"B16"}) /\ [][NextPlain]_vars

SpecB32 == InitFor({"B32"}) /\ [][NextPlain]_vars

SpecB45 == InitFor({"B45"}) /\ [][NextPlain]_vars

SpecB58 == InitFor({"B58"}) /\ [][NextPlain]_vars

SpecB64 == InitFor({"B64"}) /\ [][NextPlain]_vars

SpecPadded == InitFor({"B32", "B64"}) /\ [][NextStrip]_vars

NextEncode == CallEncode \/ CallDecode

SpecEncode == InitFor(Codecs) /\ [][NextEncode]_vars

(***************************************************************************)
(* Properties                                                              *)
(***************************************************************************)

\* Decode has returned for the string exactly as Encode returned it
RoundTripDone(c) ==
    pc = "done" /\ codec = c /\ encoded /\ inserted = 0 /\ ~stripped

\* C1: Base58 round trip: for every octet sequence, the empty one and those
\* with leading 0x00 octets or only 0x00 octets included, Decode(Encode(x))
\* is exactly x.
C1_Base58RoundTrip == RoundTripDone("B58") => result = octets

C1_Witness ==
    /\ RoundTripDone("B58")
    /\ octets = << 0, 0, 255, 58 >>
    /\ orig[1] = 49 /\ orig[2] = 49 /\ Len(orig) > 2
    /\ result = octets

\* C2: Base64 round trip: for every octet sequence of any length (length
\* mod 3 equal to 0, 1 or 2, the empty one included), Decode(Encode(x)) is
\* exactly x.
C2_Base64RoundTrip == RoundTripDone("B64") => result = octets

C2_Witness ==
    /\ RoundTripDone("B64")
    /\ octets = << 251, 255, 0, 102 >>
    /\ Len(orig) = 8 /\ orig[7] = 61 /\ orig[8] = 61
    /\ result = octets

\* C3: Base32 round trip: for every octet sequence of any length (length
\* mod 5 equal to 0..4, the empty one included), Decode(Encode(x)) is
\* exactly x.
C3_Base32RoundTrip == RoundTripDone("B32") => result = octets

C3_Witness ==
    /\ RoundTripDone("B32")
    /\ octets = << 102, 255, 0, 255, 102, 255 >>
    /\ Len(orig) = 16 /\ orig[10] # 61 /\ orig[11] = 61
    /\ result = octets

\* C4: Base45 round trip: for every octet sequence (of even or odd length,
\* the empty one included), Decode(Encode(x)) is exactly x.
C4_Base45RoundTrip == RoundTripDone("B45") => result = octets

C4_Witness ==
    /\ RoundTripDone("B45")
    /\ octets = << 255, 255, 66 >>
    /\ Len(orig) = 5
    /\ result = octets

\* the uppercase hexadecimal digit of a value in 0..15
HexDigitChar(v) == IF v < 10 THEN 48 + v ELSE 55 + v

\* C5: Base16: Encode(x) has exactly 2*|x| characters, drawn from 0-9 and
\* uppercase A-F, the high nibble of each octet first, and Decode(Encode(x))
\* is exactly x.
C5_Base16RoundTrip ==
    RoundTripDone("B16") =>
        /\ Len(orig) = 2 * Len(octets)
        /\ \A i \in 1..Len(orig) : orig[i] \in (48..57) \cup (65..70)
        /\ \A i \in 1..Len(octets) :
               /\ orig[2 * i - 1] = HexDigitChar(octets[i] \div 16)
               /\ orig[2 * i] = HexDigitChar(octets[i] % 16)
        /\ result = octets

C5_Witness ==
    /\ RoundTripDone("B16")
    /\ octets = << 171, 10, 255 >>
    /\ orig = << 65, 66, 48, 65, 70, 70 >>
    /\ result = octets

\* C6: padding-optional decode: for Base32 and for Base64, decoding
\* Encode(x) with every '=' removed gives exactly x.
C6_PaddingOptional ==
    (pc = "done" /\ codec \in {"B32", "B64"} /\ encoded /\ stripped
        /\ inserted = 0)
    => result = octets

C6_Witness ==
    /\ pc = "done" /\ codec = "B32" /\ encoded /\ stripped /\ inserted = 0
    /\ octets = << 102, 255 >>
    /\ Len(orig) = 8 /\ Len(text) = 4
    /\ result = octets

\* Long division of a big-endian base-256 number by 58: the quotient (as
\* long as the dividend) and the remainder.
RECURSIVE RefDivMod58(_, _, _, _)
RefDivMod58(bytes, i, quotient, remainder) ==
    IF i > Len(bytes) THEN [quotient |-> quotient, remainder |-> remainder]
    ELSE RefDivMod58(bytes, i + 1,
                     Append(quotient, (remainder * 256 + bytes[i]) \div 58),
                     (remainder * 256 + bytes[i]) % 58)

RefIsZero(bytes) == \A i \in 1..Len(bytes) : bytes[i] = 0

\* the base-58 digits of the big-endian number, most significant first; none
\* for the number 0
RECURSIVE RefBase58Digits(_)
RefBase58Digits(bytes) ==
    IF RefIsZero(bytes) THEN << >>
    ELSE LET d == RefDivMod58(bytes, 1, << >>, 0)
         IN  Append(RefBase58Digits(d.quotient), d.remainder)

\* the length of the longest prefix of s made of v only
RECURSIVE RefLeading(_, _)
RefLeading(s, v) ==
    IF Len(s) > 0 /\ s[1] = v THEN 1 + RefLeading(Tail(s), v) ELSE 0

\* z characters '1', then the digits of N through the alphabet
RefBase58(bytes) ==
    LET digits == RefBase58Digits(bytes)
    IN  Fill(RefLeading(bytes, 0), 49) \o
        [i \in 1..Len(digits) |-> Base58Table[digits[i] + 1]]

\* C7: Base58 Encode is the big-integer conversion: for a non-empty input
\* with z leading 0x00 octets and the rest read big-endian as N, it returns z
\* characters '1' and then the base-58 digits of N, most significant first,
\* through the alphabet; no further '1', and no digits when N = 0.
C7_Base58EncodeReference ==
    (pc \in {"text", "done"} /\ codec = "B58" /\ encoded /\ Len(octets) > 0)
    => orig = RefBase58(octets)

C7_Witness ==
    /\ pc = "text" /\ codec = "B58" /\ encoded /\ inserted = 0
    /\ octets = << 0, 255, 255, 58 >>
    /\ text = RefBase58(octets)
    /\ Len(text) = 6

NotSpace(c) == ~IsSpace(c)

\* C8: Base58 Decode ignores whitespace wherever it is: whitespace inserted
\* before, between (among the leading '1's too) or after the characters of
\* a string does not change what Decode returns, and the leading zero
\* octets still count the leading '1's.
C8_Base58WhitespaceIgnored ==
    (pc = "done" /\ codec = "B58" /\ inserted > 0)
    => /\ result = B58Decode(orig)
       /\ result # << >> =>
              RefLeading(result, 0) = RefLeading(SelectSeq(text, NotSpace), 49)

C8_Witness ==
    /\ pc = "done" /\ codec = "B58" /\ inserted > 0
    /\ orig = << 49, 49, 122 >>
    /\ text = << 49, 10, 49, 122 >>
    /\ result = << 0, 0, 57 >>

Base58Alphabet == {Base58Table[i] : i \in 1..58}

\* C9: Base58 Decode is strict about its alphabet: a character that is
\* neither whitespace nor one of the 58, at any position, makes Decode
\* return the empty sequence.
C9_Base58StrictAlphabet ==
    (pc = "done" /\ codec = "B58"
        /\ \E i \in 1..Len(text) :
               ~IsSpace(text[i]) /\ text[i] \notin Base58Alphabet)
    => result = << >>

C9_Witness ==
    /\ pc = "done" /\ codec = "B58"
    /\ text = << 50, 122, 48 >>
    /\ result = << >>

IsHexDigit(c) == c \in (48..57) \cup (65..70) \cup (97..102)

\* C10: Base16 Decode length rule: with k the number of hexadecimal digits
\* in the input (nothing else counted), Decode returns the empty sequence
\* when k is odd and exactly k/2 octets when k is even.
C10_Base16LengthRule ==
    (pc = "done" /\ codec = "B16")
    => LET k == Len(SelectSeq(text, IsHexDigit))
       IN  /\ k % 2 = 1 => result = << >>
           /\ k % 2 = 0 => Len(result) = k \div 2

C10_Witness ==
    /\ pc = "done" /\ codec = "B16"
    /\ orig = << 70, 70, 48 >>
    /\ text = << 70, 32, 70, 48 >>
    /\ result = << >>

ToUpper(c) == IF c \in 97..122 THEN c - 32 ELSE c

MapSeq(s, F(_)) == [i \in 1..Len(s) |-> F(s[i])]

\* C11: Base16 Decode is lenient and case-insensitive: decoding a string
\* gives the same octets as decoding the string with every character that
\* is not a hexadecimal digit removed and the letters a-f made uppercase.
C11_Base16Lenient ==
    (pc = "done" /\ codec = "B16")
    => result = B16Decode(MapSeq(SelectSeq(text, IsHexDigit), ToUpper))

C11_Witness ==
    /\ pc = "done" /\ codec = "B16"
    /\ text = << 97, 32, 70 >>
    /\ result = << 175 >>

\* the characters Base32 Decode accepts as symbols, and their values
IsB32Char(c) == c \in (65..90) \cup (97..122) \cup (50..55)

RefB32Value(c) ==
    IF c \in 65..90 THEN c - 65
    ELSE IF c \in 97..122 THEN c - 97
    ELSE c - 24

\* the w bits of v, most significant first
RefBits(v, w) == [i \in 1..w |-> (v \div Pow2(w - i)) % 2]

RECURSIVE RefBitString(_, _)
RefBitString(vals, w) ==
    IF vals = << >> THEN << >>
    ELSE RefBits(Head(vals), w) \o RefBitString(Tail(vals), w)

\* the index of the first padding character, or one past the end
FirstPadding(s) ==
    IF \E i \in 1..Len(s) : s[i] = 61
    THEN CHOOSE i \in 1..Len(s) :
             s[i] = 61 /\ \A j \in 1..(i - 1) : s[j] # 61
    ELSE Len(s) + 1

BeforePadding(s) == SubSeq(s, 1, FirstPadding(s) - 1)

\* the bits left over after the last whole octet of n-bit symbols
RefLeftover(syms, w) ==
    LET bits == RefBitString(syms, w)
        r == Len(bits) % 8
    IN  SubSeq(bits, Len(bits) - r + 1, Len(bits))

\* C12: Base32 Decode residue rule: with k the number of symbols (letters
\* of either case and digits 2-7) before the first '=' and r = 5k mod 8 the
\* bits left over after the last whole octet, Decode returns the empty
\* sequence when one of the r bits is 1, and exactly floor(5k/8) octets when
\* all of them are 0.
C12_Base32ResidueRule ==
    (pc = "done" /\ codec = "B32")
    => LET syms == MapSeq(SelectSeq(BeforePadding(text), IsB32Char),
                          RefB32Value)
           k == Len(syms)
           leftover == RefLeftover(syms, 5)
       IN  /\ Len(leftover) = (5 * k) % 8
           /\ (\E i \in 1..Len(leftover) : leftover[i] = 1)
                  => result = << >>
           /\ (\A i \in 1..Len(leftover) : leftover[i] = 0)
                  => Len(result) = (5 * k) \div 8

C12_Witness ==
    /\ pc = "done" /\ codec = "B32"
    /\ text = << 98, 55, 61 >>
    /\ result = << >>

\* C13: Base32 and Base64 Decode stop at the first '=': a string that
\* contains '=' decodes to what its part before the first '=' decodes to,
\* whatever comes after it.
C13_DecodeStopsAtPadding ==
    (pc = "done" /\ codec \in {"B32", "B64"}
        /\ \E i \in 1..Len(text) : text[i] = 61)
    => result = Decode(codec, BeforePadding(text))

C13_Witness ==
    /\ pc = "done" /\ codec = "B64"
    /\ text = << 97, 61, 47 >>
    /\ result = << 104 >>

\* the 64 characters of the Base64 alphabet, and their values
IsB64Char(c) == c \in (65..90) \cup (97..122) \cup (48..57) \cup {43, 47}

RefB64Value(c) ==
    IF c \in 65..90 THEN c - 65
    ELSE IF c \in 97..122 THEN c - 71
    ELSE IF c \in 48..57 THEN c + 4
    ELSE IF c = 43 THEN 62
    ELSE 63

\* C14: Base64 Decode residue rule: when the alphabet characters before the
\* first '=' leave bits beyond the last whole octet and one of those bits
\* is 1, Decode returns the empty sequence.
C14_Base64ResidueRule ==
    (pc = "done" /\ codec = "B64")
    => LET syms == MapSeq(SelectSeq(BeforePadding(text), IsB64Char),
                          RefB64Value)
           leftover == RefLeftover(syms, 6)
       IN  (\E i \in 1..Len(leftover) : leftover[i] = 1) => result = << >>

SwapCase(c) ==
    IF c \in 65..90 THEN c + 32
    ELSE IF c \in 97..122 THEN c - 32
    ELSE c

IsLetter(c) == c \in (65..90) \cup (97..122)

\* C15 as stated: Base64 Decode is case-insensitive: the reverse lookup
\* gives an uppercase letter and its lowercase the same value, and changing
\* the case of the letters of the input does not change the result.
C15_Base64CaseInsensitive ==
    (pc = "done" /\ codec = "B64")
    => /\ \A c \in 65..90 : B64ToInt(c + 32) = B64ToInt(c)
       /\ result = B64Decode(MapSeq(text, SwapCase))

\* C15: Base64 Decode is case-sensitive: the reverse lookup gives a
\* lowercase letter the value of its uppercase plus 26, and changing the
\* case of a letter before the first '=' changes the decoded result.
C15_Base64CaseSensitive ==
    (pc = "done" /\ codec = "B64")
    => /\ \A c \in 65..90 : B64ToInt(c + 32) = B64ToInt(c) + 26
       /\ \A i \in 1..(FirstPadding(text) - 1) :
              IsLetter(text[i])
              => B64Decode([text EXCEPT ![i] = SwapCase(text[i])]) # result

C15_Witness ==
    /\ pc = "done" /\ codec = "B64"
    /\ text = << 65, 97 >>
    /\ result = << 1 >>

IsB32CharOrPadding(c) == IsB32Char(c) \/ c = 61

\* C16: Base32 Decode is lenient and case-insensitive: decoding a string
\* gives the same octets as decoding the string with every character other
\* than the letters, the digits 2-7 and '=' removed and the lowercase
\* letters made uppercase; whitespace inserted into a string does not change
\* what it decodes to.
C16_Base32Lenient ==
    (pc = "done" /\ codec = "B32")
    => /\ result = B32Decode(MapSeq(SelectSeq(text, IsB32CharOrPadding),
                                    ToUpper))
       /\ inserted > 0 => result = B32Decode(orig)

C16_Witness ==
    /\ pc = "done" /\ codec = "B32"
    /\ orig = << 98, 65, 61 >>
    /\ text = << 98, 10, 65, 61 >>
    /\ result = << 8 >>

IsB64CharOrPadding(c) == IsB64Char(c) \/ c = 61

\* C17: Base64 Decode skips the characters outside its alphabet: decoding a
\* string gives the same octets as decoding the string with every character
\* that is neither one of the 64 alphabet characters nor '=' removed;
\* whitespace inserted into a string does not change what it decodes to.
C17_Base64SkipsInvalid ==
    (pc = "done" /\ codec = "B64")
    => /\ result = B64Decode(SelectSeq(text, IsB64CharOrPadding))
       /\ inserted > 0 => result = B64Decode(orig)

C17_Witness ==
    /\ pc = "done" /\ codec = "B64"
    /\ orig = << 97, 47, 65 >>
    /\ text = << 97, 32, 47, 65 >>
    /\ result = << 107, 240 >>

\* the 45 characters of the Base45 alphabet: 0-9, A-Z, space, $ % * + - . / :
IsB45Char(c) ==
    c \in (48..57) \cup (65..90) \cup {32, 36, 37, 42, 43, 45, 46, 47, 58}

\* C18: Base45 Decode length rule: with k the number of Base45 alphabet
\* characters in the input, Decode returns the empty sequence when
\* k mod 3 = 1, 2*(k/3) octets when k mod 3 = 0 and 2*floor(k/3) + 1 octets
\* when k mod 3 = 2.
C18_Base45LengthRule ==
    (pc = "done" /\ codec = "B45")
    => LET k == Len(SelectSeq(text, IsB45Char))
       IN  /\ k % 3 = 1 => result = << >>
           /\ k % 3 = 0 => Len(result) = 2 * (k \div 3)
           /\ k % 3 = 2 => Len(result) = 2 * (k \div 3) + 1

C18_Witness ==
    /\ pc = "done" /\ codec = "B45"
    /\ orig = << 66, 66, 48 >>
    /\ text = << 66, 66, 48, 32 >>
    /\ result = << >>

\* C19: Base45 Decode skips every character outside the 45-character
\* alphabet and never case-folds: decoding a string gives the same octets
\* as decoding the string with all characters outside the alphabet, the
\* lowercase letters among them, removed.
C19_Base45SkipsInvalid ==
    (pc = "done" /\ codec = "B45")
    => result = B45Decode(SelectSeq(text, IsB45Char))

C19_Witness ==
    /\ pc = "done" /\ codec = "B45"
    /\ text = << 66, 98, 66 >>
    /\ result = << 250 >>

\* C20 as stated: inserting a whitespace character (space, tab, carriage
\* return, newline) into a Base45 encoding does not change what it decodes
\* to.
C20_Base45WhitespaceIgnored ==
    (pc = "done" /\ codec = "B45" /\ encoded /\ inserted > 0)
    => result = B45Decode(orig)

NotControlWhitespace(c) == c \notin {9, 10, 13}

\* C20: inserting a tab, carriage return or newline (whitespace other than
\* the space, which is a symbol of the alphabet) into a Base45 encoding
\* does not change what it decodes to.
C20_Base45ControlWhitespaceIgnored ==
    (pc = "done" /\ codec = "B45" /\ encoded /\ inserted > 0
        /\ SelectSeq(text, NotControlWhitespace) = orig)
    => result = B45Decode(orig)

C20_Witness ==
    /\ pc = "done" /\ codec = "B45" /\ encoded /\ inserted > 0
    /\ octets = << 65, 66 >>
    /\ orig = << 66, 66, 56 >>
    /\ text = << 66, 10, 66, 56 >>
    /\ result = << 65, 66 >>

\* C21 as stated: Base45 Decode returns the empty sequence when its input
\* holds a character that the reverse table rejects and that is not
\* whitespace.
C21_Base45FailsOnInvalid ==
    (pc = "done" /\ codec = "B45"
        /\ \E i \in 1..Len(text) : ~IsB45Char(text[i]) /\ ~IsSpace(text[i]))
    => result = << >>

IsB45CharOrSpace(c) == IsB45Char(c) \/ IsSpace(c)

\* C21: Base45 Decode does not fail on an invalid character: a character
\* that the reverse table rejects is skipped whether it is whitespace or
\* not, so a string holding such characters decodes to what the string
\* without its non-whitespace invalid characters decodes to.
C21_Base45SkipsNonWhitespace ==
    (pc = "done" /\ codec = "B45"
        /\ \E i \in 1..Len(text) : ~IsB45Char(text[i]) /\ ~IsSpace(text[i]))
    => result = B45Decode(SelectSeq(text, IsB45CharOrSpace))

C21_Witness ==
    /\ pc = "done" /\ codec = "B45"
    /\ text = << 98, 66, 66 >>
    /\ result = << 250 >>

\* C22: Encode is total for the five codecs: it never takes a failure
\* return, gives the empty string for the empty input and a non-empty
\* string for every non-empty input.
C22_EncodeTotal ==
    encoded
    => /\ (octets = << >>) <=> (orig = << >>)
       /\ codec = "B58" => ~B58EncodeFull(octets).failed

C22_Witness ==
    /\ encoded /\ pc = "text" /\ codec = "B45"
    /\ octets = << 255 >>
    /\ orig = << 85, 53 >>

\* the number of '=' that end a Base64 encoding of n octets
RefB64Padding(n) == IF n % 3 = 1 THEN 2 ELSE IF n % 3 = 2 THEN 1 ELSE 0

\* C23: Base64 Encode block structure: n octets give 4*ceil(n/3) characters;
\* the output ends with two '=' when n mod 3 = 1, one when n mod 3 = 2 and
\* none when n mod 3 = 0; every character before them is an alphabet
\* character, and the unused low bits of the last symbol before the padding
\* are zero.
C23_Base64BlockStructure ==
    (encoded /\ codec = "B64")
    => LET n == Len(octets)
           pad == RefB64Padding(n)
           len == Len(orig)
       IN  /\ len = 4 * ((n + 2) \div 3)
           /\ \A i \in 1..len :
                  IF i > len - pad THEN orig[i] = 61 ELSE IsB64Char(orig[i])
           /\ pad = 2 => RefB64Value(orig[len - 2]) % 16 = 0
           /\ pad = 1 => RefB64Value(orig[len - 1]) % 4 = 0

C23_Witness ==
    /\ encoded /\ codec = "B64" /\ pc = "text"
    /\ octets = << 102, 255 >>
    /\ orig = << 90, 118, 56, 61 >>

\* the characters Base32 Encode writes: A-Z and 2-7
IsB32Symbol(c) == c \in (65..90) \cup (50..55)

\* the state of Base32 Encode's loop after the first m octets
B32EncodeAfter(input, m) ==
    B32EncodeLoop(SubSeq(input, 1, m), 1,
                  [group |-> 0, group_size |-> 0, quantum |-> 0,
                   output |-> << >>])

\* C24: Base32 Encode block structure: a non-empty input of n octets gives
\* 8*ceil(n/5) characters, the first ceil(8n/5) of them alphabet characters
\* and the rest '='; after every octet quantum is the number of symbols
\* written so far modulo 8.
C24_Base32BlockStructure ==
    (encoded /\ codec = "B32" /\ octets # << >>)
    => LET n == Len(octets)
           syms == (8 * n + 4) \div 5
           len == Len(orig)
       IN  /\ len = 8 * ((n + 4) \div 5)
           /\ \A i \in 1..len :
                  IF i > syms THEN orig[i] = 61 ELSE IsB32Symbol(orig[i])
           /\ \A m \in 1..n :
                  B32EncodeAfter(octets, m).quantum =
                      Len(B32EncodeAfter(octets, m).output) % 8

C24_Witness ==
    /\ encoded /\ codec = "B32" /\ pc = "text"
    /\ Len(octets) = 6
    /\ Len(orig) = 16
    /\ orig[10] # 61 /\ orig[11] = 61 /\ orig[16] = 61

\* the Base45 characters of a sequence of octets, pair by pair
RECURSIVE RefB45Encode(_)
RefB45Encode(bytes) ==
    IF bytes = << >> THEN << >>
    ELSE IF Len(bytes) = 1
    THEN << Base45Table[(bytes[1] % 45) + 1],
            Base45Table[((bytes[1] \div 45) % 45) + 1] >>
    ELSE LET v == 256 * bytes[1] + bytes[2]
         IN  << Base45Table[(v % 45) + 1],
                Base45Table[((v \div 45) % 45) + 1],
                Base45Table[((v \div 2025) % 45) + 1] >>
             \o RefB45Encode(SubSeq(bytes, 3, Len(bytes)))

\* C25: Base45 Encode digit order and length: each pair of octets with
\* value v = 256*b0 + b1 gives table[v mod 45], table[(v div 45) mod 45],
\* table[(v div 2025) mod 45] in that order, a trailing single octet v gives
\* table[v mod 45], table[(v div 45) mod 45], and n octets give
\* 3*floor(n/2) + 2*(n mod 2) characters.
C25_Base45DigitOrder ==
    (encoded /\ codec = "B45")
    => /\ orig = RefB45Encode(octets)
       /\ Len(orig) = 3 * (Len(octets) \div 2) + 2 * (Len(octets) % 2)

C25_Witness ==
    /\ encoded /\ codec = "B45" /\ pc = "text"
    /\ octets = << 65, 66, 255 >>
    /\ orig = << 66, 66, 56, 85, 53 >>

\* C26: Base64 Decode gives octets only on 8-bit boundaries: with k the
\* number of alphabet characters before the first '=', Decode returns
\* exactly floor(6k/8) octets, so a single dangling symbol gives no octet.
C26_Base64WholeOctetsOnly ==
    (pc = "done" /\ codec = "B64")
    => LET k == Len(SelectSeq(BeforePadding(text), IsB64Char))
       IN  Len(result) = (6 * k) \div 8

\* every pass of Encode's inner loop from index j on stores digits below 58,
\* leaves a carry of at most 255 and keeps the logical length in the buffer
RECURSIVE B58EncodeStepsOK(_, _, _, _)
B58EncodeStepsOK(st, j, zeros, max_output_length) ==
    IF j >= max_output_length THEN TRUE
    ELSE IF j = st.output_length /\ st.carry = 0 THEN TRUE
    ELSE LET nx == B58EncodeDigit(st, j, zeros)
         IN  /\ \A d \in 1..Len(nx.output) : nx.output[d] < 58
             /\ nx.carry <= 255
             /\ nx.output_length <= max_output_length
             /\ B58EncodeStepsOK(nx, j + 1, zeros, max_output_length)

\* the same for every octet from input index i on, with no carry left when
\* an inner loop ends
RECURSIVE B58EncodeRunOK(_, _, _, _, _)
B58EncodeRunOK(input, i, st, zeros, max_output_length) ==
    IF i >= Len(input) THEN TRUE
    ELSE LET start == [st EXCEPT !.carry = input[i + 1]]
             after == B58EncodeInner(start, zeros, zeros, max_output_length)
         IN  /\ B58EncodeStepsOK(start, zeros, zeros, max_output_length)
             /\ after.carry = 0
             /\ after.output_length <= max_output_length
             /\ B58EncodeRunOK(input, i + 1, after, zeros, max_output_length)

\* every pass of Decode's inner loop from index j on stores digits below
\* 256, leaves a carry below 58 and keeps the logical length in the buffer
RECURSIVE B58DecodeStepsOK(_, _, _)
B58DecodeStepsOK(st, j, max_output_length) ==
    IF j >= max_output_length THEN TRUE
    ELSE IF j = st.output_length /\ st.carry = 0 THEN TRUE
    ELSE LET nx == B58DecodeDigit(st, j)
         IN  /\ \A d \in 1..Len(nx.output) : nx.output[d] < 256
             /\ nx.carry < 58
             /\ nx.output_length <= max_output_length
             /\ B58DecodeStepsOK(nx, j + 1, max_output_length)

RECURSIVE B58DecodeRunOK(_, _, _, _)
B58DecodeRunOK(input, i, st, max_output_length) ==
    IF i >= Len(input) THEN TRUE
    ELSE IF IsSpace(input[i + 1])
         THEN B58DecodeRunOK(input, i + 1, st, max_output_length)
    ELSE LET start == [st EXCEPT !.carry = B58ToInt(input[i + 1])]
             after == B58DecodeInner(start, 0, max_output_length)
         IN  /\ B58DecodeStepsOK(start, 0, max_output_length)
             /\ after.carry = 0
             /\ after.output_length <= max_output_length
             /\ B58DecodeRunOK(input, i + 1, after, max_output_length)

B58WellFormed(t) ==
    \A i \in 1..Len(t) : t[i] \in Base58Alphabet \/ IsSpace(t[i])

\* C27: the residual-carry failure of Base58 Encode and Decode is not taken
\* on well-formed input: in Encode every stored digit is below 58 and the
\* carry at most 255 after each inner step, in Decode every stored digit is
\* below 256 and the carry below 58, output_length never exceeds the
\* allocated length (floor(137*n/100) + 1, respectively n), and the carry
\* is 0 whenever an inner loop ends.
C27_Base58CarryAbsorbed ==
    /\ (encoded /\ codec = "B58" /\ octets # << >>)
       => LET max_output_length == B58EncodeMaxOutputLength(Len(octets))
              zeros == B58CountZeros(octets, 1)
          IN  /\ B58EncodeRunOK(octets, zeros,
                                [output |-> Fill(max_output_length, 0),
                                 output_length |-> zeros, carry |-> 0,
                                 failed |-> FALSE],
                                zeros, max_output_length)
              /\ ~B58EncodeDigits(octets).failed
    /\ (pc = "done" /\ codec = "B58" /\ text # << >> /\ B58WellFormed(text))
       => LET lead == B58DecodeLeading(text, 0,
                                       [zeros |-> 0, digits_start |-> 0])
          IN  B58DecodeRunOK(text, lead.digits_start,
                             [output |-> Fill(Len(text), 0),
                              output_length |-> 0, carry |-> 0,
                              failed |-> FALSE],
                             Len(text))

C27_Witness ==
    /\ pc = "done" /\ codec = "B58" /\ encoded /\ inserted = 0
    /\ octets = << 255, 255 >>
    /\ text = << 76, 85, 118 >>
    /\ B58EncodeDigits(octets).output_length = 3
    /\ result = octets

\* C28: Base58 Encode stays inside its output buffer: once the buffer is cut
\* to output_length characters, every index the character substitution loop
\* visits is below output_length, and the terminator at index output_length
\* is left as it is.
C28_Base58SubstInBounds ==
    (encoded /\ codec = "B58" /\ octets # << >>)
    => LET output_length == B58EncodeDigits(octets).output_length
       IN  /\ \A i \in B58EncodeSubstIndices(output_length) :
                  i < output_length
           /\ terminator = 0

\* C29: Base58 is canonical: for a non-empty string of Base58 alphabet
\* characters only, encoding what it decodes to gives the string back, and
\* the decoded octets start with as many 0x00 as the string has leading '1'.
C29_Base58Canonical ==
    (pc = "done" /\ codec = "B58" /\ text # << >>
        /\ \A i \in 1..Len(text) : text[i] \in Base58Alphabet)
    => /\ B58Encode(result) = text
       /\ RefLeading(result, 0) = RefLeading(text, 49)

C29_Witness ==
    /\ pc = "done" /\ codec = "B58" /\ ~encoded
    /\ text = << 50, 49, 122 >>
    /\ result = << 13, 93 >>

\* the value of a Base45 alphabet character: its index in the table
RefB45Value(c) == CHOOSE v \in 0..44 : Base45Table[v + 1] = c

\* C30: Base45 Decode never cuts a group value short: when it returns
\* octets, every group of three symbols has a value c0 + 45*c1 + 2025*c2 of
\* at most 65535 that equals 256*(first octet) + (second octet), and a
\* trailing group of two symbols has a value c0 + 45*c1 of at most 255 that
\* equals the octet written for it.
C30_Base45NoTruncation ==
    (pc = "done" /\ codec = "B45" /\ result # << >>)
    => LET syms == MapSeq(SelectSeq(text, IsB45Char), RefB45Value)
           k == Len(syms)
       IN  /\ \A g \in 0..((k \div 3) - 1) :
                  LET v == syms[3 * g + 1] + 45 * syms[3 * g + 2] +
                           2025 * syms[3 * g + 3]
                  IN  /\ v <= 65535
                      /\ v = 256 * result[2 * g + 1] + result[2 * g + 2]
           /\ k % 3 = 2 =>
                  LET v == syms[k - 1] + 45 * syms[k]
                  IN  v <= 255 /\ v = result[Len(result)]

=============================================================================
